---- MODULE Spec2Model ----
(***************************************************************************)
(* A model of secpoll's ingestion loop: Application.run polls the feed for *)
(* 13F-HR and 13F-HR/A filings, process_filings gates every filing on the  *)
(* watch list, the in-process seen-set and the store's existence check,    *)
(* and writes the Filing row and the holdings of the admitted ones.        *)
(***************************************************************************)
EXTENDS Integers, Sequences, FiniteSets, TLC

(***************************************************************************)
(* Bounds of the model.                                                    *)
(***************************************************************************)
\* longest batch one feed fetch returns
MaxBatch == 1
\* number of writes to the watch-list file over the whole behaviour
MaxMtime == 2
\* the row and call counters saturate here
CountCap == 2

(***************************************************************************)
(* Program constants.                                                      *)
(***************************************************************************)
\* line.strip().zfill(10)
CikWidth == 10
\* a whitespace character of a watch-list line (digits are 0..9)
SP == 32

(***************************************************************************)
(* The watch-list file: a sequence of lines, a line a sequence of          *)
(* characters.                                                             *)
(***************************************************************************)
RECURSIVE lstrip(_)
lstrip(s) == IF s # <<>> /\ Head(s) = SP THEN lstrip(Tail(s)) ELSE s

RECURSIVE rstrip(_)
rstrip(s) ==
    IF s # <<>> /\ s[Len(s)] = SP THEN rstrip(SubSeq(s, 1, Len(s) - 1)) ELSE s

\* str.strip()
strip(s) == rstrip(lstrip(s))

\* str.zfill(width): pad with zeros on the left, never truncate
zfill(s, width) ==
    IF Len(s) >= width THEN s
    ELSE [i \in 1..width |->
            IF i <= width - Len(s) THEN 0 ELSE s[i - (width - Len(s))]]

RECURSIVE reload_ciks(_)
\* [line.strip().zfill(10) for line in f if line.strip() if line]
reload_ciks(lines) ==
    IF lines = <<>> THEN <<>>
    ELSE IF strip(Head(lines)) = <<>> THEN reload_ciks(Tail(lines))
    ELSE <<zfill(strip(Head(lines)), CikWidth)>> \o reload_ciks(Tail(lines))

\* set(state['current_ciks'])
set(list) == {list[i] : i \in 1..Len(list)}

CikA == zfill(<<7>>, CikWidth)
CikB == zfill(<<4, 2>>, CikWidth)
Ciks == {CikA, CikB}

\* the contents the watch-list file takes
FileContents ==
    << << <<7>> >>,
       << CikA, <<SP>>, <<SP, 4, 2, SP>> >> >>

\* hashlib.md5(f.read()).hexdigest(): a digest that separates the contents
get_file_hash(content) ==
    CHOOSE i \in 1..Len(FileContents) : FileContents[i] = content

(***************************************************************************)
(* The feed: the filings it can present.                                   *)
(***************************************************************************)
Acc == {"a1", "a2", "a3"}

\* filing.cik
FilingCik(a) == IF a = "a3" THEN CikB ELSE CikA

\* filing.attachments: "other" is a document that is not an information
\* table (not .xml, or the primary_doc), "xml_ok" one with holdings,
\* "xml_empty" one without, "xml_bad" one the extractor rejects
FilingAttachments(a) ==
    CASE a = "a1" -> <<"other", "xml_ok", "xml_ok">>
      [] a = "a2" -> <<"xml_ok", "xml_bad">>
      [] OTHER    -> <<"xml_empty">>

MaxAtt == 3

RECURSIVE SeqsUpTo(_, _)
SeqsUpTo(S, n) ==
    IF n = 0 THEN {<<>>}
    ELSE LET shorter == SeqsUpTo(S, n - 1)
         IN  shorter \cup {Append(s, x) : s \in shorter, x \in S}

Batches == SeqsUpTo(Acc, MaxBatch)

(***************************************************************************)
(* The state.                                                              *)
(***************************************************************************)
VARIABLES
    pc,             \* position of Application.run's main loop
    fpc,            \* position of process_filings in the current filing
    new_filings,    \* the 13F-HR batch of the cycle
    new_filings_a,  \* the 13F-HR/A batch of the cycle
    idx,            \* index of the current filing in its batch
    att,            \* index of the current attachment of the filing
    seen,           \* seen_filings
    relevant_ciks,  \* the set passed to process_filings
    current_ciks,   \* state['current_ciks']
    file,           \* content of the watch-list file
    mtime,          \* modification time of the watch-list file
    last_hash,      \* CikFileHandler.last_hash
    last_mtime,     \* CikFileHandler.last_mtime
    filings,        \* store: number of Filing rows per accession number
    holdings,       \* store: number of holdings batches per attachment
    managers,       \* store: the ciks that have a manager record
    trace,          \* the calls made for the filing handled last
    insertCalls,    \* insert_filing calls of this run, per accession number
    extractCalls,   \* extractions of this run, per attachment
    published,      \* publish_to_firehose calls, per accession number
    cause,          \* the exception that ended the main loop, and its filing
    shutdown_flag,  \* Application.shutdown_flag
    observer,       \* the watchdog observer thread
    health_thread,  \* the thread that runs ping_healthchecks
    conn,           \* the connection to the store
    ppc,            \* position of publish_to_firehose
    aggregator_urls,\* its endpoints: what the POST to each one does
    serializable,   \* whether story_schema.json() succeeds
    url_i,          \* index of the endpoint of the for loop
    posts,          \* the endpoints client.post was called on, in order
    doc,            \* the infoTable elements of the document to parse
    lxml_out,       \* what gather_holdings_using_lxml did on it
    bs4_out,        \* what gather_data_with_bs4 did on it
    store,          \* the committed rows of the database
    store0,         \* the committed rows before any writer started
    writer,         \* each writer's place in insert_holdings_batch and its
                    \* locals, open transaction included
    feed_page,      \* the filings two ingestion processes are presented
    ingester,       \* each one's place in process_filings, its seen set
                    \* and the accession number of its open INSERT
    filing_rows,    \* the committed Filing rows per accession number
    accession_unique\* whether filings.accession_number has a unique index

appVars == <<shutdown_flag, observer, health_thread, conn>>

\* the state of the ingestion loop
mainVars == <<pc, fpc, new_filings, new_filings_a, idx, att, seen,
              relevant_ciks, current_ciks, file, mtime, last_hash,
              last_mtime, filings, holdings, managers, trace, insertCalls,
              extractCalls, published, cause, appVars>>

pubVars == <<ppc, aggregator_urls, serializable, url_i, posts>>

parseVars == <<doc, lxml_out, bs4_out>>

\* the state of the components checked on their own
writerVars == <<store, store0, writer>>

pairVars == <<feed_page, ingester, filing_rows, accession_unique>>

otherVars == <<pubVars, parseVars, writerVars, pairVars>>

vars == <<mainVars, otherVars>>

notPubVars == <<mainVars, parseVars, writerVars, pairVars>>
notParseVars == <<mainVars, pubVars, writerVars, pairVars>>
notWriterVars == <<mainVars, pubVars, parseVars, pairVars>>
notPairVars == <<mainVars, pubVars, parseVars, writerVars>>

loopVars == <<pc, fpc, new_filings, new_filings_a, idx, att>>
watchVars == <<relevant_ciks, current_ciks, last_hash, last_mtime>>
fileVars == <<file, mtime>>
storeVars == <<filings, holdings, managers>>
callVars == <<insertCalls, extractCalls, published>>

NoCause == [what |-> "none", acc |-> "none"]
NoCalls == [a \in Acc |-> 0]
NoAttCalls == [a \in Acc |-> [i \in 1..MaxAtt |-> 0]]

\* the batch process_filings iterates over
filingsArg == IF pc = "proc1" THEN new_filings ELSE new_filings_a

Processing == pc \in {"proc1", "proc2"}

\* filing.accession_number of the current filing
accession_number == filingsArg[idx]

AtFiling(pos) == Processing /\ fpc = pos /\ idx <= Len(filingsArg)

\* faulty variant: the existence query never matches
filing_exists_never(a) == FALSE

\* SELECT EXISTS(SELECT 1 FROM filings WHERE accession_number = %s)
filing_exists(a) == filings[a] > 0

\* Application.run up to the main loop, in a process started on this store
Startup ==
    /\ pc = "check"
    /\ fpc = "idle"
    /\ new_filings = <<>>
    /\ new_filings_a = <<>>
    /\ idx = 1
    /\ att = 1
    /\ seen = {}
    /\ current_ciks = reload_ciks(file)
    /\ relevant_ciks = set(reload_ciks(file))
    /\ last_hash = get_file_hash(file)
    /\ last_mtime = 0
    /\ trace = <<>>
    /\ insertCalls = NoCalls
    /\ extractCalls = NoAttCalls
    /\ cause = NoCause
    /\ shutdown_flag = FALSE
    /\ observer = "running"
    /\ health_thread = "running"
    /\ conn = "open"

\* the ingestion loop on an empty store
MainInit ==
    /\ file = FileContents[1]
    /\ mtime = 1
    /\ filings = NoCalls
    /\ holdings = NoAttCalls
    /\ managers \in {{CikA}, {CikA, CikB}}
    /\ published = NoCalls
    /\ Startup

\* publish_to_firehose is not running
PubIdle ==
    /\ ppc = "idle"
    /\ aggregator_urls = <<>>
    /\ serializable = TRUE
    /\ url_i = 1
    /\ posts = <<>>

Pending == [status |-> "pending", exc |-> "none", rows |-> <<>>]

\* no document is being parsed
ParseIdle ==
    /\ doc = <<>>
    /\ lxml_out = Pending
    /\ bs4_out = Pending

\* the processes that write to the same database
Writers == {1, 2}

\* the four lookup tables, by the DataFrame column that feeds each
lookup_tables ==
    <<"title_of_class", "share_type", "put_call", "investment_discretion">>

LookupCols == {lookup_tables[i] : i \in DOMAIN lookup_tables}

\* a database without rows; seq holds the last id each table has given out
EmptyStore ==
    [ filings |-> <<>>,
      lookup |-> [c \in LookupCols |-> {}],
      issuers |-> {},
      holdings |-> <<>>,
      seq |-> [t \in LookupCols \cup {"issuers"} |-> 0] ]

\* a writer that is not in insert_holdings_batch
IdleWriter ==
    [ pc |-> "idle", df |-> <<>>, filing_map |-> <<>>, col |-> 0,
      todo |-> <<>>, txn |-> {}, copied |-> <<>>, mappings |-> <<>>,
      issuer_mapping |-> <<>> ]

\* no writer is at work
WriterIdle ==
    /\ store = EmptyStore
    /\ store0 = EmptyStore
    /\ writer = [w \in Writers |-> IdleWriter]

\* the ingestion processes that share one store
Ingesters == {1, 2}

IdleIngester == [pc |-> "idle", i |-> 1, seen |-> {}, txn |-> "none"]

\* no second ingestion process runs
PairIdle ==
    /\ feed_page = <<>>
    /\ ingester = [p \in Ingesters |-> IdleIngester]
    /\ filing_rows = [a \in Acc |-> 0]
    /\ accession_unique = TRUE

Init ==
    /\ MainInit
    /\ PubIdle
    /\ ParseIdle
    /\ WriterIdle
    /\ PairIdle

(***************************************************************************)
(* Helpers of the actions.                                                 *)
(***************************************************************************)
Bump(n) == IF n < CountCap THEN n + 1 ELSE n

\* `continue`, or the end of the loop body: on to the next filing
NextFiling ==
    /\ idx' = idx + 1
    /\ fpc' = "gate"
    /\ att' = 1
    /\ UNCHANGED <<pc, new_filings, new_filings_a>>

\* an exception leaves process_filings or the fetch: Application.run logs
\* it outside the while loop (SystemExit passes unlogged), stops the observer
\* and closes the connection; the process ends and its daemon thread with it
Raise(what, a) ==
    /\ pc' = "stopped"
    /\ observer' = "stopped"
    /\ conn' = "closed"
    /\ health_thread' = "dead"
    /\ fpc' = "idle"
    /\ cause' = [what |-> what, acc |-> a]
    /\ new_filings' = <<>>
    /\ new_filings_a' = <<>>
    /\ idx' = 1
    /\ att' = 1

(***************************************************************************)
(* Application.run: one poll cycle.                                        *)
(***************************************************************************)
\* event_handler.check_for_changes(); the callback is reload_ciks
check_for_changes ==
    /\ pc = "check"
    /\ pc' = "fetch1"
    /\ IF mtime > last_mtime
       THEN /\ last_mtime' = mtime
            /\ IF get_file_hash(file) # last_hash
               THEN /\ last_hash' = get_file_hash(file)
                    /\ current_ciks' = reload_ciks(file)
               ELSE UNCHANGED <<last_hash, current_ciks>>
       ELSE UNCHANGED <<last_mtime, last_hash, current_ciks>>
    /\ UNCHANGED <<relevant_ciks, fpc, new_filings, new_filings_a, idx, att,
                   seen, trace, cause>>
    /\ UNCHANGED <<fileVars, storeVars, callVars>>
    /\ UNCHANGED <<appVars, otherVars>>

\* new_filings = get_current_filings_with_circuit_breaker(form="13F-HR")
FetchHR ==
    /\ pc = "fetch1"
    /\ \E b \in Batches : new_filings' = b
    /\ pc' = "fetch2"
    /\ UNCHANGED <<fpc, new_filings_a, idx, att, seen, trace, cause>>
    /\ UNCHANGED <<watchVars, fileVars, storeVars, callVars>>
    /\ UNCHANGED <<appVars, otherVars>>

\* new_filings_a = get_current_filings_with_circuit_breaker(form="13F-HR/A"),
\* then process_filings is entered for the first batch
FetchHRA ==
    /\ pc = "fetch2"
    /\ \E b \in Batches : new_filings_a' = b
    /\ pc' = "proc1"
    /\ fpc' = "gate"
    /\ idx' = 1
    /\ att' = 1
    /\ UNCHANGED <<new_filings, seen, trace, cause>>
    /\ UNCHANGED <<watchVars, fileVars, storeVars, callVars>>
    /\ UNCHANGED <<appVars, otherVars>>

\* the fetch raises (a network error, or CircuitBreakerError when open)
FetchRaises ==
    /\ pc \in {"fetch1", "fetch2"}
    /\ Raise("fetch", "none")
    /\ UNCHANGED <<seen, trace>>
    /\ UNCHANGED <<watchVars, fileVars, storeVars, callVars>>
    /\ UNCHANGED <<shutdown_flag, otherVars>>

\* process_filings returns: the second batch, or time.sleep(5)
EndOfBatch ==
    /\ Processing
    /\ fpc = "gate"
    /\ idx > Len(filingsArg)
    /\ IF pc = "proc1"
       THEN /\ pc' = "proc2"
            /\ fpc' = "gate"
       ELSE /\ pc' = "sleep"
            /\ fpc' = "idle"
    /\ idx' = 1
    /\ att' = 1
    /\ trace' = <<>>
    /\ UNCHANGED <<new_filings, new_filings_a, seen, cause>>
    /\ UNCHANGED <<watchVars, fileVars, storeVars, callVars>>
    /\ UNCHANGED <<appVars, otherVars>>

\* time.sleep(5), then `while not self.shutdown_flag`; the finally block
\* when the loop ends
Sleep ==
    /\ pc = "sleep"
    /\ IF shutdown_flag
       THEN Raise("none", "none")
       ELSE /\ pc' = "check"
            /\ UNCHANGED <<fpc, new_filings, new_filings_a, idx, att, cause,
                           observer, health_thread, conn>>
    /\ UNCHANGED <<seen, trace, shutdown_flag>>
    /\ UNCHANGED <<watchVars, fileVars, storeVars, callVars>>
    /\ UNCHANGED otherVars

(***************************************************************************)
(* process_filings: the body of `for filing in filings`.                   *)
(***************************************************************************)
\* faulty variant: the watch-list check is missing
GateNoWatchList(cik, a, relevant, seenset) ==
    IF a \in seenset THEN "AlreadyProcessed" ELSE "Unseen"

\* faulty variant: the seen-set check is missing
GateNoSeen(cik, a, relevant, seenset) ==
    IF cik \notin relevant THEN "Irrelevant" ELSE "Unseen"

\* the two in-process checks at the head of the loop body
Gate(cik, a, relevant, seenset) ==
    IF cik \notin relevant THEN "Irrelevant"
    ELSE IF a \in seenset THEN "AlreadyProcessed"
    ELSE "Unseen"

\* gather_holdings_from_soup over one attachment's content
Extract(kind) ==
    CASE kind = "xml_ok"    -> "rows"
      [] kind = "xml_empty" -> "none"
      [] kind = "xml_bad"   -> "raise"

\* attachment.document.endswith('.xml') and 'primary_doc' not in it
IsInfoTable(kind) == kind # "other"

attachment == FilingAttachments(accession_number)[att]

\* `if cik not in relevant_ciks: continue`, `if accession_number in seen:
\* continue`
GateFiling ==
    /\ AtFiling("gate")
    /\ trace' = <<>>
    /\ IF Gate(FilingCik(accession_number), accession_number,
               relevant_ciks, seen) = "Unseen"
       THEN /\ fpc' = "exists"
            /\ UNCHANGED <<pc, new_filings, new_filings_a, idx, att>>
       ELSE NextFiling
    /\ UNCHANGED <<seen, cause>>
    /\ UNCHANGED <<watchVars, fileVars, storeVars, callVars>>
    /\ UNCHANGED <<appVars, otherVars>>

\* faulty variant: a filing whose row exists is taken up at its attachments
CheckFilingExistsResumes ==
    /\ AtFiling("exists")
    /\ trace' = Append(trace, "filing_exists")
    /\ fpc' = IF filing_exists(accession_number) THEN "attach" ELSE "manager"
    /\ att' = 1
    /\ UNCHANGED <<seen, pc, new_filings, new_filings_a, idx, cause>>
    /\ UNCHANGED <<watchVars, fileVars, storeVars, callVars>>
    /\ UNCHANGED <<appVars, otherVars>>

\* faulty variant: the `continue` after seen.add is missing
CheckFilingExistsNoContinue ==
    /\ AtFiling("exists")
    /\ trace' = Append(trace, "filing_exists")
    /\ seen' = IF filing_exists(accession_number)
               THEN seen \cup {accession_number} ELSE seen
    /\ fpc' = "manager"
    /\ UNCHANGED <<pc, new_filings, new_filings_a, idx, att, cause>>
    /\ UNCHANGED <<watchVars, fileVars, storeVars, callVars>>
    /\ UNCHANGED <<appVars, otherVars>>

\* `if filing_exists(conn, accession_number): seen.add(...); continue`
CheckFilingExists ==
    /\ AtFiling("exists")
    /\ trace' = Append(trace, "filing_exists")
    /\ IF filing_exists(accession_number)
       THEN /\ seen' = seen \cup {accession_number}
            /\ NextFiling
       ELSE /\ fpc' = "manager"
            /\ UNCHANGED <<seen, pc, new_filings, new_filings_a, idx, att>>
    /\ UNCHANGED <<cause>>
    /\ UNCHANGED <<watchVars, fileVars, storeVars, callVars>>
    /\ UNCHANGED <<appVars, otherVars>>

\* faulty variant: a missing manager is logged and the handling goes on
GetManagerNoContinue ==
    /\ AtFiling("manager")
    /\ trace' = Append(trace, "get_manager_by_cik")
    /\ fpc' = "insert"
    /\ UNCHANGED <<pc, new_filings, new_filings_a, idx, att>>
    /\ UNCHANGED <<seen, cause>>
    /\ UNCHANGED <<watchVars, fileVars, storeVars, callVars>>
    /\ UNCHANGED <<appVars, otherVars>>

\* `manager = get_manager_by_cik(conn, cik); if not manager: continue`
GetManager ==
    /\ AtFiling("manager")
    /\ trace' = Append(trace, "get_manager_by_cik")
    /\ IF FilingCik(accession_number) \notin managers
       THEN NextFiling
       ELSE /\ fpc' = "insert"
            /\ UNCHANGED <<pc, new_filings, new_filings_a, idx, att>>
    /\ UNCHANGED <<seen, cause>>
    /\ UNCHANGED <<watchVars, fileVars, storeVars, callVars>>
    /\ UNCHANGED <<appVars, otherVars>>

\* faulty variant: the filing is marked seen as soon as its row is committed
InsertFilingMarksSeen ==
    /\ AtFiling("insert")
    /\ trace' = trace \o <<"insert_filing", "seen.add">>
    /\ insertCalls' = [insertCalls EXCEPT ![accession_number] = Bump(@)]
    /\ filings' = [filings EXCEPT ![accession_number] = Bump(@)]
    /\ seen' = seen \cup {accession_number}
    /\ fpc' = "attach"
    /\ att' = 1
    /\ UNCHANGED <<pc, new_filings, new_filings_a, idx, cause>>
    /\ UNCHANGED <<watchVars, fileVars, holdings, managers, extractCalls,
                   published>>
    /\ UNCHANGED <<appVars, otherVars>>

\* insert_filing: INSERT INTO filings ... RETURNING filing_id; conn.commit()
InsertFiling ==
    /\ AtFiling("insert")
    /\ trace' = Append(trace, "insert_filing")
    /\ insertCalls' = [insertCalls EXCEPT ![accession_number] = Bump(@)]
    /\ filings' = [filings EXCEPT ![accession_number] = Bump(@)]
    /\ fpc' = "attach"
    /\ att' = 1
    /\ UNCHANGED <<pc, new_filings, new_filings_a, idx, seen, cause>>
    /\ UNCHANGED <<watchVars, fileVars, holdings, managers, extractCalls,
                   published>>
    /\ UNCHANGED <<appVars, otherVars>>

\* insert_filing: psycopg2.Error, conn.rollback(), raise Exception
InsertFilingRaises ==
    /\ AtFiling("insert")
    /\ trace' = Append(trace, "insert_filing")
    /\ insertCalls' = [insertCalls EXCEPT ![accession_number] = Bump(@)]
    /\ Raise("insert_filing", accession_number)
    /\ UNCHANGED <<seen>>
    /\ UNCHANGED <<watchVars, fileVars, storeVars, extractCalls, published>>
    /\ UNCHANGED <<shutdown_flag, otherVars>>

AtAttachment ==
    AtFiling("attach") /\ att <= Len(FilingAttachments(accession_number))

\* an attachment that fails the `if` at the head of the attachment loop
SkipAttachment ==
    /\ AtAttachment
    /\ ~IsInfoTable(attachment)
    /\ att' = att + 1
    /\ UNCHANGED <<pc, fpc, new_filings, new_filings_a, idx, seen, trace,
                   cause>>
    /\ UNCHANGED <<watchVars, fileVars, storeVars, callVars>>
    /\ UNCHANGED <<appVars, otherVars>>

Extracted ==
    /\ trace' = Append(trace, "extract")
    /\ extractCalls' = [extractCalls EXCEPT ![accession_number][att] = Bump(@)]

\* the extraction gives no holding: `if holdings:` is false
ExtractNothing ==
    /\ AtAttachment
    /\ IsInfoTable(attachment)
    /\ Extract(attachment) = "none"
    /\ Extracted
    /\ att' = att + 1
    /\ UNCHANGED <<pc, fpc, new_filings, new_filings_a, idx, seen, cause>>
    /\ UNCHANGED <<watchVars, fileVars, storeVars, insertCalls, published>>
    /\ UNCHANGED <<appVars, otherVars>>

\* the extraction raises (an enum value outside its closed set)
ExtractRaises ==
    /\ AtAttachment
    /\ IsInfoTable(attachment)
    /\ Extract(attachment) = "raise"
    /\ Extracted
    /\ Raise("extract", accession_number)
    /\ UNCHANGED <<seen>>
    /\ UNCHANGED <<watchVars, fileVars, storeVars, insertCalls, published>>
    /\ UNCHANGED <<shutdown_flag, otherVars>>

\* faulty variant: seen.add follows the first holdings write of the filing
InsertHoldingsBatchMarksSeen ==
    /\ AtAttachment
    /\ IsInfoTable(attachment)
    /\ Extract(attachment) = "rows"
    /\ trace' = trace \o <<"extract", "insert_holdings_batch">>
    /\ extractCalls' = [extractCalls EXCEPT ![accession_number][att] = Bump(@)]
    /\ holdings' = [holdings EXCEPT ![accession_number][att] = Bump(@)]
    /\ seen' = seen \cup {accession_number}
    /\ att' = att + 1
    /\ UNCHANGED <<pc, fpc, new_filings, new_filings_a, idx, cause>>
    /\ UNCHANGED <<watchVars, fileVars, filings, managers, insertCalls,
                   published>>
    /\ UNCHANGED <<appVars, otherVars>>

\* the extraction gives holdings and insert_holdings_batch commits them
InsertHoldingsBatch ==
    /\ AtAttachment
    /\ IsInfoTable(attachment)
    /\ Extract(attachment) = "rows"
    /\ trace' = trace \o <<"extract", "insert_holdings_batch">>
    /\ extractCalls' = [extractCalls EXCEPT ![accession_number][att] = Bump(@)]
    /\ holdings' = [holdings EXCEPT ![accession_number][att] = Bump(@)]
    /\ att' = att + 1
    /\ UNCHANGED <<pc, fpc, new_filings, new_filings_a, idx, seen, cause>>
    /\ UNCHANGED <<watchVars, fileVars, filings, managers, insertCalls,
                   published>>
    /\ UNCHANGED <<appVars, otherVars>>

\* the extraction gives holdings and insert_holdings_batch raises
InsertHoldingsRaises ==
    /\ AtAttachment
    /\ IsInfoTable(attachment)
    /\ Extract(attachment) = "rows"
    /\ trace' = trace \o <<"extract", "insert_holdings_batch">>
    /\ extractCalls' = [extractCalls EXCEPT ![accession_number][att] = Bump(@)]
    /\ Raise("insert_holdings_batch", accession_number)
    /\ UNCHANGED <<seen>>
    /\ UNCHANGED <<watchVars, fileVars, storeVars, insertCalls, published>>
    /\ UNCHANGED <<shutdown_flag, otherVars>>

\* after the attachment loop: logger.info(...); seen.add(accession_number)
MarkSeen ==
    /\ AtFiling("attach")
    /\ att > Len(FilingAttachments(accession_number))
    /\ trace' = Append(trace, "seen.add")
    /\ seen' = seen \cup {accession_number}
    /\ NextFiling
    /\ UNCHANGED <<cause>>
    /\ UNCHANGED <<watchVars, fileVars, storeVars, callVars>>
    /\ UNCHANGED <<appVars, otherVars>>

(***************************************************************************)
(* The environment: the watch-list file is rewritten, the stopped process  *)
(* is started again on the same store.                                     *)
(***************************************************************************)
\* the file is read at the top of a cycle and at startup only: a write at
\* any other moment is seen there as a write made just before
WriteFile ==
    /\ pc \in {"check", "stopped"}
    /\ mtime <= MaxMtime
    /\ \E i \in 1..Len(FileContents) : file' = FileContents[i]
    /\ mtime' = mtime + 1
    /\ UNCHANGED <<loopVars, seen, trace, cause>>
    /\ UNCHANGED <<watchVars, storeVars, callVars>>
    /\ UNCHANGED <<appVars, otherVars>>

\* faulty variant: the handler returns instead of calling sys.exit(0)
shutdown_handler_returns ==
    /\ pc # "stopped"
    /\ shutdown_flag' = TRUE
    /\ observer' = "stopped"
    /\ conn' = "closed"
    /\ UNCHANGED <<loopVars, seen, trace, cause, health_thread>>
    /\ UNCHANGED <<watchVars, fileVars, storeVars, callVars>>
    /\ UNCHANGED otherVars

\* SIGTERM or SIGINT while the process runs: Application.shutdown_handler
\* sets the flag, stops the observer, waits up to 5 s for the health thread,
\* closes the connection and calls sys.exit(0); SystemExit unwinds run()
\* through its finally block
shutdown_handler ==
    /\ pc # "stopped"
    /\ shutdown_flag' = TRUE
    /\ Raise("SystemExit", "none")
    /\ UNCHANGED <<seen, trace>>
    /\ UNCHANGED <<watchVars, fileVars, storeVars, callVars>>
    /\ UNCHANGED otherVars

Restart ==
    /\ pc = "stopped"
    /\ pc' = "check"
    /\ fpc' = "idle"
    /\ new_filings' = <<>>
    /\ new_filings_a' = <<>>
    /\ idx' = 1
    /\ att' = 1
    /\ seen' = {}
    /\ current_ciks' = reload_ciks(file)
    /\ relevant_ciks' = set(reload_ciks(file))
    /\ last_hash' = get_file_hash(file)
    /\ last_mtime' = 0
    /\ trace' = <<>>
    /\ insertCalls' = NoCalls
    /\ extractCalls' = NoAttCalls
    /\ cause' = NoCause
    /\ shutdown_flag' = FALSE
    /\ observer' = "running"
    /\ health_thread' = "running"
    /\ conn' = "open"
    /\ UNCHANGED <<fileVars, storeVars, published>>
    /\ UNCHANGED otherVars

Next ==
    \/ check_for_changes
    \/ FetchHR
    \/ FetchHRA
    \/ FetchRaises
    \/ EndOfBatch
    \/ Sleep
    \/ GateFiling
    \/ CheckFilingExists
    \/ GetManager
    \/ InsertFiling
    \/ InsertFilingRaises
    \/ SkipAttachment
    \/ ExtractNothing
    \/ ExtractRaises
    \/ InsertHoldingsBatch
    \/ InsertHoldingsRaises
    \/ MarkSeen
    \/ WriteFile
    \/ shutdown_handler
    \/ Restart

Spec == Init /\ [][Next]_vars

TypeOK ==
    /\ pc \in {"check", "fetch1", "fetch2", "proc1", "proc2", "sleep",
               "stopped"}
    /\ fpc \in {"idle", "gate", "exists", "manager", "insert", "attach"}
    /\ seen \subseteq Acc
    /\ relevant_ciks \subseteq Ciks

(***************************************************************************)
(* The claims.                                                             *)
(***************************************************************************)
\* the filing whose handling ended last in the current batch
previous == filingsArg[idx - 1]

\* process_filings stands between two filings, the first one handled
Handled == Processing /\ fpc = "gate" /\ idx > 1

FilingFailures == {"insert_filing", "extract", "insert_holdings_batch"}

\* C1: whatever the feed presents and however often, insert_filing is called
\* at most once per accession number in a run, the store holds at most one
\* Filing row per accession number and at most one copy of the holdings of
\* each of its attachments.
C1_AtMostOnce ==
    \A a \in Acc :
        /\ insertCalls[a] <= 1
        /\ filings[a] <= 1
        /\ \A i \in 1..MaxAtt : holdings[a][i] <= 1

\* C1 witness: a filing inserted in this run, with holdings, was sighted in
\* the 13F-HR batch and again in the 13F-HR/A batch, and discarded there.
C1_Witness ==
    /\ pc = "proc2"
    /\ Handled
    /\ new_filings = new_filings_a
    /\ insertCalls[previous] = 1
    /\ holdings[previous][2] = 1
    /\ previous \in seen
    /\ trace = <<>>

\* C2: a filing whose Filing row was in the store when it was sighted never
\* gets past the existence check (the handling is at the manager lookup or at
\* insert_filing only for a filing without a row, and at the attachments only
\* for the row this run inserted); sighted after a restart, a filing inserted
\* by an earlier run costs one existence check, is marked seen and keeps its
\* rows.
C2_GatedAfterRestart ==
    /\ (Processing /\ idx <= Len(filingsArg) /\ fpc \in {"manager", "insert"})
           => filings[accession_number] = 0
    /\ (Processing /\ idx <= Len(filingsArg) /\ fpc = "attach")
           => /\ filings[accession_number] = 1
              /\ insertCalls[accession_number] = 1
    /\ (Handled /\ filings[previous] > 0 /\ insertCalls[previous] = 0
            /\ trace # <<>>)
           => /\ trace = <<"filing_exists">>
              /\ previous \in seen
              /\ filings[previous] = 1

\* C2 witness: after a restart, a filing whose row and holdings an earlier run
\* wrote was sighted and discarded by the existence check.
C2_Witness ==
    /\ Handled
    /\ filings[previous] = 1
    /\ holdings[previous][1] = 1
    /\ insertCalls[previous] = 0
    /\ trace = <<"filing_exists">>
    /\ previous \in seen

\* C3: a filing whose cik is not in relevant_ciks is never in the seen-set,
\* has no insert_filing call and no extraction in the run, is never past the
\* head of the loop body, and its handling makes no call at all.
C3_WatchListFiltering ==
    /\ \A a \in Acc :
           FilingCik(a) \notin relevant_ciks
               => /\ a \notin seen
                  /\ insertCalls[a] = 0
                  /\ \A i \in 1..MaxAtt : extractCalls[a][i] = 0
    /\ (Processing /\ idx <= Len(filingsArg)
            /\ FilingCik(accession_number) \notin relevant_ciks)
           => fpc = "gate"
    /\ (Handled /\ FilingCik(previous) \notin relevant_ciks) => trace = <<>>

\* C3 witness: a filing of an unwatched cik, which has a manager record and no
\* row in the store, was sighted and skipped.
C3_Witness ==
    /\ Handled
    /\ FilingCik(previous) \notin relevant_ciks
    /\ FilingCik(previous) \in managers
    /\ filings[previous] = 0

Last(s) == s[Len(s)]

\* the calls of a handling in their order: insert_filing, then extractions and
\* holdings insertions, then seen.add
Ordered(t) ==
    /\ t[1] = "filing_exists"
    /\ t[2] = "get_manager_by_cik"
    /\ t[3] = "insert_filing"
    /\ \A i \in 4..(Len(t) - 1) : t[i] \in {"extract", "insert_holdings_batch"}
    /\ Last(t) = "seen.add"

\* C4: when the handling of an admitted filing is over, its calls were made in
\* the order insert_filing, insert_holdings_batch, seen.add, and the
\* notification of the filing was emitted after them.
C4_PerFilingOrdering ==
    (Handled /\ trace # <<>> /\ Last(trace) = "seen.add")
        => /\ Ordered(trace)
           /\ published[previous] > 0

\* C5: a filing admitted and persisted in this run has exactly one
\* notification.
C5_OneNotification ==
    \A a \in Acc :
        (a \in seen /\ insertCalls[a] = 1) => published[a] = 1

\* C6: a filing in the seen-set is never past the head of the loop body (no
\* store call and no extraction is made for it), and no attachment is
\* extracted twice in a run.
C6_SecondSightingGated ==
    /\ (Processing /\ idx <= Len(filingsArg) /\ fpc # "gate")
           => accession_number \notin seen
    /\ \A a \in Acc : \A i \in 1..MaxAtt : extractCalls[a][i] <= 1

\* C6 witness: a filing extracted and marked seen in this run was sighted
\* again and discarded without a call.
C6_Witness ==
    /\ Handled
    /\ previous \in seen
    /\ extractCalls[previous][1] = 1
    /\ insertCalls[previous] = 1
    /\ trace = <<>>

\* C7: the failure of one filing (insert_filing, the extraction or
\* insert_holdings_batch raises) does not end the main loop.
C7_FilingFailureSurvived ==
    cause.what \in FilingFailures => pc # "stopped"

\* C8: a filing whose insert_filing, extraction or insert_holdings_batch
\* raised is not in the seen-set.
C8_NoSeenOnFailure ==
    cause.what \in FilingFailures => cause.acc \notin seen

\* C8 witness: a holdings write raised after the Filing row was committed and
\* another filing had been marked seen.
C8_Witness ==
    /\ cause.what = "insert_holdings_batch"
    /\ filings[cause.acc] = 1
    /\ seen # {}

\* C9: a feed fetch that raises does not end the main loop.
C9_FetchFailureSurvived ==
    cause.what = "fetch" => pc # "stopped"

\* C10: once check_for_changes ran at the top of a cycle, the watch-list set
\* which process_filings gets in this cycle is the identifiers of the file.
C10_HotReload ==
    pc \in {"fetch1", "fetch2", "proc1", "proc2"}
        => relevant_ciks = set(reload_ciks(file))

\* C20: a filing that passed the watch-list, seen-set and existence checks
\* and whose cik has no manager record is skipped: the handling is never at
\* insert_filing or at the attachments for it, insert_filing is not called
\* for it and it is not in the seen-set, and after the lookup process_filings
\* stands at the next filing with the main loop running.
C20_UnknownEntitySkipped ==
    /\ (Processing /\ idx <= Len(filingsArg) /\ fpc \in {"insert", "attach"})
           => FilingCik(accession_number) \in managers
    /\ \A a \in Acc :
           FilingCik(a) \notin managers
               => /\ insertCalls[a] = 0
                  /\ a \notin seen
    /\ (Handled /\ trace # <<>> /\ Last(trace) = "get_manager_by_cik")
           => /\ trace = <<"filing_exists", "get_manager_by_cik">>
              /\ FilingCik(previous) \notin managers
              /\ pc # "stopped"

\* C20 witness: a filing of a watched cik without a manager record was
\* sighted, looked up and skipped.
C20_Witness ==
    /\ Handled
    /\ FilingCik(previous) \in relevant_ciks
    /\ FilingCik(previous) \notin managers
    /\ trace = <<"filing_exists", "get_manager_by_cik">>
    /\ previous \notin seen
    /\ filings[previous] = 0

\* C18: once a shutdown signal is handled the main loop is over (no fetch
\* and no store call follows), the observer is stopped, the thread of the
\* liveness ping is gone and the connection is closed, wherever in the poll
\* cycle the signal arrived.
C18_GracefulShutdown ==
    shutdown_flag
        => /\ pc = "stopped"
           /\ fpc = "idle"
           /\ observer = "stopped"
           /\ health_thread = "dead"
           /\ conn = "closed"

\* C18 witness: the signal arrived in the handling of a filing, between
\* insert_filing and the attachments.
C18_Witness ==
    /\ shutdown_flag
    /\ conn = "closed"
    /\ trace = <<"filing_exists", "get_manager_by_cik", "insert_filing">>
    /\ cause.what = "SystemExit"

(***************************************************************************)
(* publish_to_firehose, on its own: one call, on any list of endpoints.    *)
(***************************************************************************)
\* most endpoints of one call
MaxUrls == 2

\* what client.post and response.raise_for_status do at one endpoint: return,
\* raise httpx.HTTPStatusError, raise httpx.RequestError, raise another
\* exception
PostOutcomes == {"ok", "HTTPStatusError", "RequestError", "Exception"}

\* the exceptions the try statement in the for loop has a handler for
Handled_by_post == {"HTTPStatusError", "RequestError", "Exception"}

\* the ingestion loop does not run
MainIdle ==
    /\ MainInit
    /\ managers = {CikA}

PublishInit ==
    /\ MainIdle
    /\ ParseIdle
    /\ WriterIdle
    /\ PairIdle
    /\ ppc = "serialize"
    /\ aggregator_urls \in SeqsUpTo(PostOutcomes, MaxUrls)
    /\ serializable \in BOOLEAN
    /\ url_i = 1
    /\ posts = <<>>

\* story_data = story_schema.json(); on an exception log and return
Serialize ==
    /\ ppc = "serialize"
    /\ ppc' = IF serializable THEN "post" ELSE "returned"
    /\ UNCHANGED <<aggregator_urls, serializable, url_i, posts>>
    /\ UNCHANGED notPubVars

\* faulty variant: only the httpx exceptions are handled
PostUnhandled ==
    /\ ppc = "post"
    /\ url_i <= Len(aggregator_urls)
    /\ posts' = Append(posts, url_i)
    /\ IF aggregator_urls[url_i] \in {"ok", "HTTPStatusError", "RequestError"}
       THEN /\ url_i' = url_i + 1
            /\ ppc' = "post"
       ELSE /\ url_i' = url_i
            /\ ppc' = "raised"
    /\ UNCHANGED <<aggregator_urls, serializable>>
    /\ UNCHANGED notPubVars

\* one turn of `for url in aggregator_urls`: client.post, raise_for_status,
\* and the three except clauses, which log
Post ==
    /\ ppc = "post"
    /\ url_i <= Len(aggregator_urls)
    /\ posts' = Append(posts, url_i)
    /\ IF aggregator_urls[url_i] = "ok"
          \/ aggregator_urls[url_i] \in Handled_by_post
       THEN /\ url_i' = url_i + 1
            /\ ppc' = "post"
       ELSE /\ url_i' = url_i
            /\ ppc' = "raised"
    /\ UNCHANGED <<aggregator_urls, serializable>>
    /\ UNCHANGED notPubVars

\* the for loop is over: the client is closed, the function returns
PublishReturns ==
    /\ ppc = "post"
    /\ url_i > Len(aggregator_urls)
    /\ ppc' = "returned"
    /\ UNCHANGED <<aggregator_urls, serializable, url_i, posts>>
    /\ UNCHANGED notPubVars

PublishNext ==
    \/ Serialize
    \/ Post
    \/ PublishReturns

SpecPublish == PublishInit /\ [][PublishNext]_vars

\* the endpoints 1..n in their order
Upto(n) == [i \in 1..n |-> i]

\* C19 as stated: publish_to_firehose never raises and, when it is over, has
\* made one POST to every endpoint, in turn.
C19_EveryEndpointAttempted ==
    /\ ppc # "raised"
    /\ ppc = "returned" => posts = Upto(Len(aggregator_urls))

\* C19 amended: publish_to_firehose never raises; the POSTs made so far are
\* the first endpoints in their order, each once, whatever the earlier ones
\* did; when it is over it has made one POST to every endpoint if the story
\* serialized, and none if it did not.
C19_EndpointsIndependent ==
    /\ ppc # "raised"
    /\ \E n \in 0..Len(aggregator_urls) : posts = Upto(n)
    /\ ppc = "returned"
           => posts = IF serializable THEN Upto(Len(aggregator_urls)) ELSE <<>>

\* C19 witness: the first of two endpoints raised an exception that is not an
\* httpx one, and the second was posted to.
C19_Witness ==
    /\ ppc = "returned"
    /\ serializable
    /\ Len(aggregator_urls) = 2
    /\ aggregator_urls[1] = "Exception"
    /\ posts = <<1, 2>>

\* ---------------------------------------------------------------------
\* The two holdings parsers of utils.py, run on one document.
\* ---------------------------------------------------------------------

\* the largest number of infoTable elements in a document
MaxRows == 2

\* an element that the document does not have
ABSENT == "<absent>"

\* str.strip() on the element texts that occur
Strip(t) ==
    CASE t = " sh " -> "sh"
      [] t = " Put " -> "Put"
      [] t = " COM " -> "COM"
      [] t = " " -> ""
      [] OTHER -> t

\* str.upper() on the element texts that occur
Upper(t) ==
    CASE t = "sh" -> "SH"
      [] t = "Put" -> "PUT"
      [] t = "dfnd" -> "DFND"
      [] t = "xx" -> "XX"
      [] OTHER -> t

\* the text of a numeric element, stripped: a signed decimal numeral, the
\* empty string, or text that float() does not accept
Numeral(neg, whole, tenth) ==
    [k |-> "num", neg |-> neg, whole |-> whole, tenth |-> tenth]
EmptyText == [k |-> "empty"]
JunkText == [k |-> "junk"]
AbsentText == [k |-> "absent"]

\* float(text) raises ValueError on the empty string and on junk
FloatRaises(n) == n.k # "num"

\* faulty variant: the nearest integer, halves away from zero
IntFloatRounding(n) ==
    LET nearest == IF n.tenth >= 5 THEN n.whole + 1 ELSE n.whole
    IN  IF n.neg THEN 0 - nearest ELSE nearest
\* int(float(text)): the fraction is dropped, towards zero
IntFloat(n) == IF n.neg THEN 0 - n.whole ELSE n.whole

Present(sole, shared, none) ==
    [k |-> "present", Sole |-> sole, Shared |-> shared, None |-> none]

\* the info-table entry of the well-formed scenario, with all three counts
Base ==
    [ nameOfIssuer |-> "Acme Corp", cusip |-> "000000000",
      titleOfClass |-> "COM",
      value |-> Numeral(FALSE, 1000, 0),
      sshPrnamt |-> Numeral(FALSE, 500, 0),
      sshPrnamtType |-> "SH",
      investmentDiscretion |-> "SOLE",
      putCall |-> ABSENT,
      votingAuthority |-> Present(Numeral(FALSE, 500, 0),
                                  Numeral(FALSE, 0, 0),
                                  Numeral(FALSE, 0, 0)) ]

\* the infoTable elements a document is made of
Elements ==
    { Base,
      [Base EXCEPT !.value = Numeral(FALSE, 1000, 9)],
      [Base EXCEPT !.value = Numeral(TRUE, 5, 0)],
      [Base EXCEPT !.value = JunkText],
      [Base EXCEPT !.sshPrnamt = EmptyText],
      [Base EXCEPT !.sshPrnamtType = " sh ", !.titleOfClass = " COM "],
      [Base EXCEPT !.sshPrnamtType = "XX"],
      [Base EXCEPT !.investmentDiscretion = "dfnd"],
      [Base EXCEPT !.investmentDiscretion = "xx"],
      [Base EXCEPT !.putCall = " Put "],
      [Base EXCEPT !.putCall = "XX"],
      [Base EXCEPT !.putCall = " "],
      [Base EXCEPT !.votingAuthority = [k |-> "absent"]],
      [Base EXCEPT !.votingAuthority =
          Present(Numeral(FALSE, 500, 0), AbsentText, AbsentText)],
      [Base EXCEPT !.votingAuthority =
          Present(Numeral(TRUE, 7, 5), Numeral(FALSE, 0, 0),
                  Numeral(FALSE, 0, 0))],
      [Base EXCEPT !.sshPrnamt = Numeral(FALSE, 500, 5),
                   !.votingAuthority =
                       Present(Numeral(FALSE, 499, 9), Numeral(FALSE, 0, 5),
                               Numeral(FALSE, 1, 5))] }

Documents == SeqsUpTo(Elements, MaxRows)

\* the list that is appended for one element, under the names of
\* HOLDINGS_COLUMNS
Row(c) ==
    [ status |-> "ok", exc |-> "none",
      row |-> [ cik |-> c[1], accession_number |-> c[2],
                shares_amount |-> c[3], value |-> c[4],
                title_of_class |-> c[5], share_type |-> c[6],
                investment_discretion |-> c[7], put_call |-> c[8],
                sole |-> c[9], shared |-> c[10], none |-> c[11],
                name_of_issuer |-> c[12], cusip |-> c[13] ] ]

raise(exc) == [status |-> "raised", exc |-> exc, row |-> <<>>]

\* xpath "string(path)": the text of the element, "" when there is none
XString(t) == IF t = ABSENT THEN "" ELSE t
XNumber(n) == IF n.k = "absent" THEN EmptyText ELSE n
XVoting(v, child) == IF v.k = "absent" THEN EmptyText ELSE XNumber(v[child])

\* one pass of the loop of gather_holdings_using_lxml
lxml_table(table, cik, accession) ==
    LET name_of_issuer == Strip(XString(table.nameOfIssuer))
        cusip == Strip(XString(table.cusip))
        title_of_class == Strip(XString(table.titleOfClass))
        value == XNumber(table.value)
        amount == XNumber(table.sshPrnamt)
        share_type == Upper(Strip(XString(table.sshPrnamtType)))
        investment_discretion ==
            Upper(Strip(XString(table.investmentDiscretion)))
        stripped == Upper(Strip(XString(table.putCall)))
        put_call == IF stripped = "" THEN "NONE" ELSE stripped
        sole == XVoting(table.votingAuthority, "Sole")
        shared == XVoting(table.votingAuthority, "Shared")
        none == XVoting(table.votingAuthority, "None")
    IN  IF FloatRaises(value) THEN raise("ValueError")
        ELSE IF amount.k # "empty" /\ FloatRaises(amount)
            THEN raise("ValueError")
        ELSE IF share_type \notin {"SH", "PRN"} THEN raise("ValueError")
        ELSE IF investment_discretion \notin {"SOLE", "DFND", "OTR"}
            THEN raise("ValueError")
        ELSE IF put_call \notin {"NONE", "PUT", "CALL"}
            THEN raise("ValueError")
        ELSE IF FloatRaises(sole) \/ FloatRaises(shared) \/ FloatRaises(none)
            THEN raise("ValueError")
        ELSE Row(<<cik, accession,
                   IF amount.k = "empty" THEN 0 ELSE IntFloat(amount),
                   IntFloat(value), title_of_class, share_type,
                   investment_discretion, put_call, IntFloat(sole),
                   IntFloat(shared), IntFloat(none), name_of_issuer, cusip>>)

\* one pass of the loop of gather_data_with_bs4: find() gives None for a
\* missing element, and None has no .text and no .find
bs4_row(row, cik, accession) ==
    LET voting_authority == row.votingAuthority
    IN  IF row.nameOfIssuer = ABSENT \/ row.cusip = ABSENT
            \/ row.sshPrnamt.k = "absent"
            THEN raise("AttributeError")
        ELSE IF FloatRaises(row.sshPrnamt) THEN raise("ValueError")
        ELSE IF row.sshPrnamtType = ABSENT THEN raise("AttributeError")
        ELSE IF Upper(Strip(row.sshPrnamtType)) \notin {"SH", "PRN"}
            THEN raise("ValueError")
        ELSE IF row.value.k = "absent" THEN raise("AttributeError")
        ELSE IF FloatRaises(row.value) THEN raise("ValueError")
        ELSE IF row.investmentDiscretion = ABSENT
            THEN raise("AttributeError")
        ELSE IF Upper(Strip(row.investmentDiscretion))
                    \notin {"SOLE", "DFND", "OTR"}
            THEN raise("ValueError")
        ELSE LET put_call == IF row.putCall # ABSENT
                                 THEN Strip(row.putCall) ELSE "NONE"
             IN  IF Upper(Strip(put_call)) \notin {"NONE", "PUT", "CALL"}
                     THEN raise("ValueError")
                 ELSE IF row.titleOfClass = ABSENT
                     THEN raise("AttributeError")
                 ELSE IF voting_authority.k = "absent"
                     THEN raise("AttributeError")
                 ELSE IF voting_authority.Sole.k = "absent"
                     THEN raise("AttributeError")
                 ELSE IF FloatRaises(voting_authority.Sole)
                     THEN raise("ValueError")
                 ELSE IF voting_authority.Shared.k = "absent"
                     THEN raise("AttributeError")
                 ELSE IF FloatRaises(voting_authority.Shared)
                     THEN raise("ValueError")
                 ELSE IF voting_authority.None.k = "absent"
                     THEN raise("AttributeError")
                 ELSE IF FloatRaises(voting_authority.None)
                     THEN raise("ValueError")
                 ELSE Row(<<cik, accession,
                            IntFloat(row.sshPrnamt), IntFloat(row.value),
                            Strip(row.titleOfClass),
                            Upper(Strip(row.sshPrnamtType)),
                            Upper(Strip(row.investmentDiscretion)),
                            put_call,
                            IntFloat(voting_authority.Sole),
                            IntFloat(voting_authority.Shared),
                            IntFloat(voting_authority.None),
                            Strip(row.nameOfIssuer), Strip(row.cusip)>>)

\* the smallest member of a non-empty set of numbers
Min(S) == CHOOSE i \in S : \A j \in S : i <= j

\* the loop over the elements: the first exception leaves the function,
\* and the rows gathered so far are lost with its frame
Gather(passes) ==
    LET failed == {i \in DOMAIN passes : passes[i].status = "raised"}
    IN  IF failed # {}
            THEN [status |-> "raised", exc |-> passes[Min(failed)].exc,
                  rows |-> <<>>]
        ELSE [status |-> "ok", exc |-> "none",
              rows |-> [i \in DOMAIN passes |-> passes[i].row]]

IsOk(pass) == pass.status = "ok"

\* faulty variant: an element that fails is skipped and the rest is returned
gather_holdings_skipping(tables, cik, accession) ==
    LET passes == [i \in DOMAIN tables |->
                      lxml_table(tables[i], cik, accession)]
        kept == SelectSeq(passes, IsOk)
    IN  [status |-> "ok", exc |-> "none",
         rows |-> [i \in DOMAIN kept |-> kept[i].row]]
gather_holdings_using_lxml(tables, cik, accession) ==
    Gather([i \in DOMAIN tables |->
               lxml_table(tables[i], cik, accession)])

gather_data_with_bs4(data, cik, accession) ==
    Gather([i \in DOMAIN data |-> bs4_row(data[i], cik, accession)])

ParseInit ==
    /\ MainIdle
    /\ PubIdle
    /\ WriterIdle
    /\ PairIdle
    /\ doc \in Documents
    /\ lxml_out = Pending
    /\ bs4_out = Pending

RunLxml ==
    /\ lxml_out = Pending
    /\ lxml_out' = gather_holdings_using_lxml(doc, CikA, "a1")
    /\ UNCHANGED <<doc, bs4_out, notParseVars>>

RunBs4 ==
    /\ bs4_out = Pending
    /\ bs4_out' = gather_data_with_bs4(doc, CikA, "a1")
    /\ UNCHANGED <<doc, lxml_out, notParseVars>>

ParseNext == RunLxml \/ RunBs4

SpecParse == ParseInit /\ [][ParseNext]_vars

\* an element whose share type, investment discretion or put/call is
\* outside its closed set
InvalidEnum(e) ==
    \/ Upper(Strip(XString(e.sshPrnamtType))) \notin {"SH", "PRN"}
    \/ Upper(Strip(XString(e.investmentDiscretion)))
           \notin {"SOLE", "DFND", "OTR"}
    \/ /\ Strip(XString(e.putCall)) # ""
       /\ Upper(Strip(e.putCall)) \notin {"NONE", "PUT", "CALL"}

HasInvalidEnum == \E i \in DOMAIN doc : InvalidEnum(doc[i])

\* C11: when any element of the document has an enumerated field outside
\* its closed set, each parser raises and returns no row, however many
\* valid elements come before the invalid one
C11_EnumFailsDocument ==
    HasInvalidEnum
        => /\ lxml_out # Pending
                  => lxml_out.status = "raised" /\ lxml_out.rows = <<>>
           /\ bs4_out # Pending
                  => bs4_out.status = "raised" /\ bs4_out.rows = <<>>

\* a valid element precedes the invalid one and both parsers have run
C11_Witness ==
    /\ Len(doc) = 2
    /\ doc[1] = Base
    /\ InvalidEnum(doc[2])
    /\ lxml_out.status = "raised"
    /\ bs4_out.status = "raised"

\* the counts of a voting authority, 0 standing in for each missing one
Defaulted(e) ==
    LET v == e.votingAuthority
        zero == Numeral(FALSE, 0, 0)
        dflt(n) == IF n.k = "absent" THEN zero ELSE n
    IN  [e EXCEPT !.votingAuthority =
            IF v.k = "absent" THEN Present(zero, zero, zero)
            ELSE Present(dflt(v.Sole), dflt(v.Shared), dflt(v.None))]

DefaultedDoc == [i \in DOMAIN doc |-> Defaulted(doc[i])]

\* C12: an element without votingAuthority, or without one of its Sole,
\* Shared and None children, is extracted as if each missing count were 0:
\* extraction does not raise because of it
C12_VotingDefaults ==
    /\ lxml_out # Pending
           => lxml_out = gather_holdings_using_lxml(DefaultedDoc, CikA, "a1")
    /\ bs4_out # Pending
           => bs4_out = gather_data_with_bs4(DefaultedDoc, CikA, "a1")

NonNegative(out) ==
    \A i \in DOMAIN out.rows :
        /\ out.rows[i].value >= 0
        /\ out.rows[i].shares_amount >= 0
        /\ out.rows[i].sole >= 0
        /\ out.rows[i].shared >= 0
        /\ out.rows[i].none >= 0

\* C13: every record of a document the extractor accepts has a value, a
\* shares-or-principal amount and three voting-authority counts that are
\* integers greater than or equal to 0
C13_NonNegativeNumbers ==
    /\ lxml_out.status = "ok" => NonNegative(lxml_out)
    /\ bs4_out.status = "ok" => NonNegative(bs4_out)

\* ---------------------------------------------------------------------
\* insert_holdings_batch: lookups, issuers and the bulk load, statement by
\* statement, against a database that other writers use as well.
\* ---------------------------------------------------------------------

\* the largest number of rows one call is given
MaxChunk == 2

\* the character '-' of a negative number in the CSV buffer
MINUS == 45

\* the elements the written documents are made of
WriterElements ==
    { Base,
      [Base EXCEPT !.nameOfIssuer = "Beta Inc", !.cusip = "111111111",
                   !.titleOfClass = "PFD", !.putCall = " Put ",
                   !.value = Numeral(FALSE, 1000, 9)] }

WriterDocs == SeqsUpTo(WriterElements, MaxChunk) \ {<<>>}

\* the non-empty lists of rows the parsers hand to insert_holdings_batch
LxmlInputs ==
    {gather_holdings_using_lxml(d, CikA, "a1").rows : d \in WriterDocs}
WriterInputs ==
    LxmlInputs
        \cup {gather_data_with_bs4(d, CikA, "a1").rows : d \in WriterDocs}

\* a database that earlier filings have filled
Populated ==
    [ filings |-> ("a0" :> 9),
      lookup |->
          [c \in LookupCols |->
              CASE c = "title_of_class" ->
                       {[table |-> c, key |-> "COM", id |-> 1]}
                [] c = "share_type" ->
                       {[table |-> c, key |-> "SH", id |-> 1],
                        [table |-> c, key |-> "PRN", id |-> 2]}
                [] c = "put_call" ->
                       {[table |-> c, key |-> "NONE", id |-> 1]}
                [] OTHER -> {[table |-> c, key |-> "SOLE", id |-> 1]}],
      issuers |-> {[table |-> "issuers", key |-> "000000000", id |-> 1,
                    name |-> "Acme Co"]},
      holdings |->
          << [ filing_id |-> 9, issuer_id |-> 1, title_of_class |-> 1,
               shares_or_principal_amount |-> 10,
               shares_or_principal_type |-> 1, value |-> 20,
               put_or_call |-> 1, investment_discretion |-> 1,
               voting_authority_sole |-> 10, voting_authority_shared |-> 0,
               voting_authority_none |-> 0 ] >>,
      seq |-> [t \in LookupCols \cup {"issuers"} |->
                  IF t = "share_type" THEN 2 ELSE 1] ]

\* the databases a call can find: the filing of the rows is registered
\* (insert_filing has committed it) or it is not
Stores ==
    {[s EXCEPT !.filings = f @@ s.filings] :
        s \in {EmptyStore, Populated}, f \in {<<>>, "a1" :> 1}}

Keys(rows) == {r.key : r \in rows}

\* faulty variant: every key is given the smallest id of the table
DictSmallestId(rows) ==
    [k \in Keys(rows) |-> Min({r.id : r \in rows})]
\* {row[0]: row[1] for row in cur.fetchall()}
Dict(rows) == [k \in Keys(rows) |-> (CHOOSE r \in rows : r.key = k).id]

\* Series.unique(): the values in the order of their first appearance
RECURSIVE Unique(_)
Unique(s) ==
    IF s = <<>> THEN <<>>
    ELSE LET before == Unique(SubSeq(s, 1, Len(s) - 1))
             x == s[Len(s)]
         IN  IF \E i \in DOMAIN before : before[i] = x THEN before
             ELSE Append(before, x)

unique_values(df, col) == Unique([i \in DOMAIN df |-> df[i][col]])

unique_issuers(df) ==
    Unique([i \in DOMAIN df |-> <<df[i].cusip, df[i].name_of_issuer>>])

\* the decimal digits of a natural number
RECURSIVE Digits(_)
Digits(n) ==
    IF n < 10 THEN <<n>> ELSE Append(Digits(n \div 10), n % 10)

\* the number that a sequence of decimal digits denotes
RECURSIVE Number(_)
Number(ds) ==
    IF ds = <<>> THEN 0
    ELSE 10 * Number(SubSeq(ds, 1, Len(ds) - 1)) + ds[Len(ds)]

\* one Int64 cell as to_csv writes it
to_csv_cell(n) == IF n < 0 THEN <<MINUS>> \o Digits(0 - n) ELSE Digits(n)

\* one cell as COPY reads it into an integer column
copy_cell(text) ==
    IF text[1] = MINUS THEN 0 - Number(Tail(text)) ELSE Number(text)

\* the columns of final_df, and the columns COPY loads them into
final_columns ==
    <<"filing_id", "issuer_id", "title_of_class_id", "shares_amount",
      "share_type_id", "value", "put_call_id", "investment_discretion_id",
      "sole", "shared", "none">>
copy_columns ==
    <<"filing_id", "issuer_id", "title_of_class",
      "shares_or_principal_amount", "shares_or_principal_type", "value",
      "put_or_call", "investment_discretion", "voting_authority_sole",
      "voting_authority_shared", "voting_authority_none">>

\* faulty variant: no dropna, a reference that does not map is written as 0
MappedNoDrop(W) ==
    LET get(mapping, k) == IF k \in DOMAIN mapping THEN mapping[k] ELSE 0
        ids(r) ==
            [ filing_id |-> get(W.filing_map, r.accession_number),
              issuer_id |-> get(W.issuer_mapping, r.cusip),
              title_of_class_id |->
                  get(W.mappings["title_of_class"], r.title_of_class),
              share_type_id |-> get(W.mappings["share_type"], r.share_type),
              put_call_id |-> get(W.mappings["put_call"], r.put_call),
              investment_discretion_id |->
                  get(W.mappings["investment_discretion"],
                      r.investment_discretion) ]
    IN  [i \in DOMAIN W.df |-> ids(W.df[i]) @@ W.df[i]]
\* the rows whose six references all map: the others are dropped by dropna
Mapped(W) ==
    LET maps(r) ==
            /\ r.accession_number \in DOMAIN W.filing_map
            /\ r.cusip \in DOMAIN W.issuer_mapping
            /\ \A c \in LookupCols : r[c] \in DOMAIN W.mappings[c]
        ids(r) ==
            [ filing_id |-> W.filing_map[r.accession_number],
              issuer_id |-> W.issuer_mapping[r.cusip],
              title_of_class_id |->
                  W.mappings["title_of_class"][r.title_of_class],
              share_type_id |-> W.mappings["share_type"][r.share_type],
              put_call_id |-> W.mappings["put_call"][r.put_call],
              investment_discretion_id |->
                  W.mappings["investment_discretion"]
                            [r.investment_discretion] ]
        kept == SelectSeq(W.df, maps)
    IN  [i \in DOMAIN kept |-> ids(kept[i]) @@ kept[i]]

\* the buffer: one line per row, one cell per column of final_df
to_csv(frame) ==
    [i \in DOMAIN frame |->
        [k \in DOMAIN final_columns |->
            to_csv_cell(frame[i][final_columns[k]])]]

\* the holdings rows that COPY makes of the buffer, cell k into column k
copy_from(buffer) ==
    [i \in DOMAIN buffer |->
        [c \in {copy_columns[k] : k \in DOMAIN copy_columns} |->
            copy_cell(buffer[i][CHOOSE k \in DOMAIN copy_columns :
                                    copy_columns[k] = c])]]

\* another writer's open transaction holds a row with this key
HeldByOther(w, table, key) ==
    \E v \in Writers \ {w} :
        \E r \in writer[v].txn : r.table = table /\ r.key = key

\* BEGIN for the lookup table number i
BeginLookup(W, i) ==
    [W EXCEPT !.pc = "lookup", !.col = i, !.txn = {},
              !.todo = unique_values(W.df, lookup_tables[i])]

\* the frame is built and filing_map is read
ReadFilingMap(w) ==
    /\ writer[w].pc = "start"
    /\ writer' = [writer EXCEPT ![w] =
                     BeginLookup([@ EXCEPT !.filing_map = store.filings], 1)]
    /\ UNCHANGED <<store, store0, notWriterVars>>

\* faulty variant: a plain INSERT into a table without a unique index
LookupInsertUnchecked(w) ==
    LET W == writer[w]
        table == lookup_tables[W.col]
    IN  /\ W.pc = "lookup"
        /\ W.todo # <<>>
        /\ writer' = [writer EXCEPT ![w] =
               [@ EXCEPT !.todo = Tail(@),
                         !.txn = @ \cup {[table |-> table,
                                          key |-> Head(W.todo),
                                          id |-> store.seq[table] + 1]}]]
        /\ store' = [store EXCEPT !.seq[table] = @ + 1]
        /\ UNCHANGED <<store0, notWriterVars>>
\* one INSERT ... ON CONFLICT (name) DO NOTHING of the batch: it waits while
\* another transaction holds the key, and does nothing when the key is there
LookupInsert(w) ==
    LET W == writer[w]
        table == lookup_tables[W.col]
    IN  /\ W.pc = "lookup"
        /\ W.todo # <<>>
        /\ ~HeldByOther(w, table, Head(W.todo))
        /\ IF Head(W.todo) \in Keys(store.lookup[table])
               THEN /\ writer' = [writer EXCEPT ![w].todo = Tail(@)]
                    /\ UNCHANGED store
           ELSE /\ writer' = [writer EXCEPT ![w] =
                       [@ EXCEPT !.todo = Tail(@),
                                 !.txn = @ \cup
                                     {[table |-> table, key |-> Head(W.todo),
                                       id |-> store.seq[table] + 1]}]]
                /\ store' = [store EXCEPT !.seq[table] = @ + 1]
        /\ UNCHANGED <<store0, notWriterVars>>

\* conn.commit() after the batch of one lookup table
LookupCommit(w) ==
    LET W == writer[w]
        table == lookup_tables[W.col]
    IN  /\ W.pc = "lookup"
        /\ W.todo = <<>>
        /\ store' = [store EXCEPT !.lookup[table] = @ \cup W.txn]
        /\ writer' = [writer EXCEPT ![w] =
                         [@ EXCEPT !.pc = "select", !.txn = {}]]
        /\ UNCHANGED <<store0, notWriterVars>>

\* SELECT name, id: the mapping of the column; then the next table, or the
\* issuers
LookupSelect(w) ==
    LET W == writer[w]
        table == lookup_tables[W.col]
        mapped == [W EXCEPT !.mappings =
                      (table :> Dict(store.lookup[table])) @@ @]
    IN  /\ W.pc = "select"
        /\ writer' = [writer EXCEPT ![w] =
               IF W.col < Len(lookup_tables)
                   THEN BeginLookup(mapped, W.col + 1)
               ELSE [mapped EXCEPT !.pc = "issuers",
                                   !.todo = unique_issuers(W.df)]]
        /\ UNCHANGED <<store, store0, notWriterVars>>

\* faulty variant: ON CONFLICT (cusip) DO NOTHING, the stored name is kept
IssuerUpsertDoNothing(w) ==
    LET W == writer[w]
        cusip == Head(W.todo)[1]
        known == {r \in W.txn \cup store.issuers : r.key = cusip}
    IN  /\ W.pc = "issuers"
        /\ W.todo # <<>>
        /\ ~HeldByOther(w, "issuers", cusip)
        /\ IF known # {}
               THEN /\ writer' = [writer EXCEPT ![w].todo = Tail(@)]
                    /\ UNCHANGED store
           ELSE /\ writer' = [writer EXCEPT ![w] =
                       [@ EXCEPT !.todo = Tail(@),
                                 !.txn = @ \cup
                                     {[table |-> "issuers", key |-> cusip,
                                       id |-> store.seq["issuers"] + 1,
                                       name |-> Head(W.todo)[2]]}]]
                /\ store' = [store EXCEPT !.seq["issuers"] = @ + 1]
        /\ UNCHANGED <<store0, notWriterVars>>
\* one INSERT ... ON CONFLICT (cusip) DO UPDATE SET issuer_name of the batch
IssuerUpsert(w) ==
    LET W == writer[w]
        cusip == Head(W.todo)[1]
        issuer_name == Head(W.todo)[2]
        own == {r \in W.txn : r.key = cusip}
        there == {r \in store.issuers : r.key = cusip}
        renamed(rows) == {[r EXCEPT !.name = issuer_name] : r \in rows}
    IN  /\ W.pc = "issuers"
        /\ W.todo # <<>>
        /\ ~HeldByOther(w, "issuers", cusip)
        /\ IF own # {} \/ there # {}
               THEN /\ writer' = [writer EXCEPT ![w] =
                           [@ EXCEPT !.todo = Tail(@),
                                     !.txn = (@ \ own) \cup
                                         renamed(IF own # {} THEN own
                                                 ELSE there)]]
                    /\ UNCHANGED store
           ELSE /\ writer' = [writer EXCEPT ![w] =
                       [@ EXCEPT !.todo = Tail(@),
                                 !.txn = @ \cup
                                     {[table |-> "issuers", key |-> cusip,
                                       id |-> store.seq["issuers"] + 1,
                                       name |-> issuer_name]}]]
                /\ store' = [store EXCEPT !.seq["issuers"] = @ + 1]
        /\ UNCHANGED <<store0, notWriterVars>>

\* conn.commit() after the batch of issuers
IssuerCommit(w) ==
    LET W == writer[w]
    IN  /\ W.pc = "issuers"
        /\ W.todo = <<>>
        /\ store' = [store EXCEPT !.issuers =
                        {r \in @ : r.key \notin Keys(W.txn)} \cup W.txn]
        /\ writer' = [writer EXCEPT ![w] =
                         [@ EXCEPT !.pc = "issuer_select", !.txn = {}]]
        /\ UNCHANGED <<store0, notWriterVars>>

\* SELECT cusip, issuer_id: the mapping that insert_issuers returns
IssuerSelect(w) ==
    /\ writer[w].pc = "issuer_select"
    /\ writer' = [writer EXCEPT ![w] =
                     [@ EXCEPT !.pc = "copy",
                               !.issuer_mapping = Dict(store.issuers)]]
    /\ UNCHANGED <<store, store0, notWriterVars>>

\* map, dropna, to_csv and copy_from: the rows are in the open transaction,
\* or copy_from raises
CopyFrom(w) ==
    /\ writer[w].pc = "copy"
    /\ \/ writer' = [writer EXCEPT ![w] =
              [@ EXCEPT !.pc = "commit",
                        !.copied = copy_from(to_csv(Mapped(writer[w])))]]
       \/ writer' = [writer EXCEPT ![w].pc = "raised"]
    /\ UNCHANGED <<store, store0, notWriterVars>>

\* conn.commit() after copy_from
Commit(w) ==
    /\ writer[w].pc = "commit"
    /\ store' = [store EXCEPT !.holdings = @ \o writer[w].copied]
    /\ writer' = [writer EXCEPT ![w] =
                     [@ EXCEPT !.pc = "done", !.copied = <<>>]]
    /\ UNCHANGED <<store0, notWriterVars>>

\* SIGTERM or SIGINT: shutdown_handler runs between two calls of the
\* function, closes the connection, which rolls the open transaction back,
\* and leaves with SystemExit
Signal(w) ==
    LET W == writer[w]
    IN  /\ W.pc \in {"start", "lookup", "select", "issuers", "issuer_select",
                     "copy", "commit"}
        /\ W.pc \in {"lookup", "issuers"} => W.todo = <<>>
        /\ writer' = [writer EXCEPT ![w] =
                         [@ EXCEPT !.pc = "exited", !.txn = {},
                                   !.copied = <<>>]]
        /\ UNCHANGED <<store, store0, notWriterVars>>

\* a writer that runs insert_holdings_batch on its own
WriterInit ==
    /\ MainIdle
    /\ PubIdle
    /\ ParseIdle
    /\ PairIdle
    /\ store \in Stores
    /\ store0 = store
    /\ \E df \in WriterInputs :
           writer = [w \in Writers |->
                        IF w = 1 THEN [IdleWriter EXCEPT !.pc = "start",
                                                         !.df = df]
                        ELSE IdleWriter]

WriterNext ==
    \/ ReadFilingMap(1)
    \/ LookupInsert(1)
    \/ LookupCommit(1)
    \/ LookupSelect(1)
    \/ IssuerUpsert(1)
    \/ IssuerCommit(1)
    \/ IssuerSelect(1)
    \/ CopyFrom(1)
    \/ Commit(1)
    \/ Signal(1)

SpecWriter == WriterInit /\ [][WriterNext]_vars

\* the text, or the CUSIP, of the row that a reference id names
KeyOf(rows, id) == (CHOOSE r \in rows : r.id = id).key

\* the Holding rows of a filing as they are read back, references resolved
ReadBack(filing_id) ==
    LET of_filing(h) == h.filing_id = filing_id
        rows == SelectSeq(store.holdings, of_filing)
    IN  [i \in DOMAIN rows |->
            [ value |-> rows[i].value,
              shares_amount |-> rows[i].shares_or_principal_amount,
              sole |-> rows[i].voting_authority_sole,
              shared |-> rows[i].voting_authority_shared,
              none |-> rows[i].voting_authority_none,
              cusip |-> KeyOf(store.issuers, rows[i].issuer_id),
              title_of_class |->
                  KeyOf(store.lookup["title_of_class"],
                        rows[i].title_of_class),
              share_type |->
                  KeyOf(store.lookup["share_type"],
                        rows[i].shares_or_principal_type),
              put_call |->
                  KeyOf(store.lookup["put_call"], rows[i].put_or_call),
              investment_discretion |->
                  KeyOf(store.lookup["investment_discretion"],
                        rows[i].investment_discretion) ]]

\* the same fields of the raw holdings that the call was given
Given(df) ==
    [i \in DOMAIN df |->
        [ value |-> df[i].value, shares_amount |-> df[i].shares_amount,
          sole |-> df[i].sole, shared |-> df[i].shared, none |-> df[i].none,
          cusip |-> df[i].cusip, title_of_class |-> df[i].title_of_class,
          share_type |-> df[i].share_type, put_call |-> df[i].put_call,
          investment_discretion |-> df[i].investment_discretion ]]

\* the filing of the rows is in the filings table
Registered == "a1" \in DOMAIN store.filings

\* the rows of the call are the Holding rows of the filing
Persisted == ReadBack(store.filings["a1"]) = Given(writer[1].df)

\* C14: when insert_holdings_batch has written the raw holdings of a
\* registered filing, the Holding rows read back by filing id, with every
\* reference resolved, have the numeric fields, the CUSIP and the four
\* classification texts of the raw holdings
C14_RoundTrip ==
    (writer[1].pc = "done" /\ Registered) => Persisted

\* two rows with different issuers and classes were written to a database
\* that had rows already, one put/call text as the bs4 parser leaves it
C14_Witness ==
    /\ writer[1].pc = "done"
    /\ Registered
    /\ store0.issuers # {}
    /\ Len(writer[1].df) = 2
    /\ writer[1].df[1].title_of_class = "COM"
    /\ writer[1].df[2].put_call = "Put"
    /\ Len(store.holdings) = 3

\* C15: the writes of one insert_holdings_batch call are one transaction:
\* when the bulk write has failed, the lookup rows, the issuers and the
\* holdings are what they were before the call
C15_ChunkAtomic ==
    writer[1].pc = "raised"
        => /\ store.lookup = store0.lookup
           /\ store.issuers = store0.issuers
           /\ store.holdings = store0.holdings

\* C17: when a shutdown signal arrives while insert_holdings_batch runs, the
\* bulk write is committed before the connection is closed: after the exit
\* the rows of the call are in the store
C17_InFlightWriteCommits ==
    (writer[1].pc = "exited" /\ Registered) => Persisted

\* two writers in insert_lookups and insert_issuers at the same time
RaceInit ==
    /\ MainIdle
    /\ PubIdle
    /\ ParseIdle
    /\ PairIdle
    /\ store \in {EmptyStore, Populated}
    /\ store0 = store
    /\ writer \in [Writers -> {[IdleWriter EXCEPT !.pc = "start", !.df = df] :
                                  df \in LxmlInputs}]

\* the key that the next statement of a writer inserts, and its table
NextKey(W) ==
    IF W.pc = "lookup"
        THEN [table |-> lookup_tables[W.col], key |-> Head(W.todo)]
    ELSE [table |-> "issuers", key |-> Head(W.todo)[1]]

WaitsFor(w, v) ==
    /\ writer[w].pc \in {"lookup", "issuers"}
    /\ writer[w].todo # <<>>
    /\ \E r \in writer[v].txn :
           /\ r.table = NextKey(writer[w]).table
           /\ r.key = NextKey(writer[w]).key

\* two transactions wait for each other: the database aborts one of them,
\* and its execute_batch raises
Deadlock(w) ==
    /\ \E v \in Writers \ {w} : WaitsFor(w, v) /\ WaitsFor(v, w)
    /\ writer' = [writer EXCEPT ![w] =
                     [@ EXCEPT !.pc = "raised", !.txn = {}]]
    /\ UNCHANGED <<store, store0, notWriterVars>>

RaceNext ==
    \E w \in Writers :
        \/ ReadFilingMap(w)
        \/ LookupInsert(w)
        \/ LookupCommit(w)
        \/ LookupSelect(w)
        \/ IssuerUpsert(w)
        \/ IssuerCommit(w)
        \/ IssuerSelect(w)
        \/ Deadlock(w)

SpecRace == RaceInit /\ [][RaceNext]_vars

\* every table holds one row for a key and one key for an id
OneRowPerKey ==
    \A t \in LookupCols \cup {"issuers"} :
        LET rows == IF t = "issuers" THEN store.issuers ELSE store.lookup[t]
        IN  \A r1, r2 \in rows :
                (r1.key = r2.key \/ r1.id = r2.id) => r1 = r2

\* a mapping gives each of its keys the id of the key's row in the table
MapsToRows(mapping, rows) ==
    \A k \in DOMAIN mapping :
        \E r \in rows : r.key = k /\ r.id = mapping[k]

\* what every writer has mapped so far is what the store holds
WritersAgree ==
    \A w \in Writers :
        /\ \A c \in DOMAIN writer[w].mappings :
               MapsToRows(writer[w].mappings[c], store.lookup[c])
        /\ MapsToRows(writer[w].issuer_mapping, store.issuers)

\* the keys that were there before the writers started have kept their ids
IdsStable ==
    /\ \A c \in LookupCols : store0.lookup[c] \subseteq store.lookup[c]
    /\ \A r0 \in store0.issuers :
           \E r \in store.issuers : r.key = r0.key /\ r.id = r0.id

\* a writer that is through insert_lookups and insert_issuers has an id for
\* every key of its frame
MapsEveryKey(w) ==
    \A i \in DOMAIN writer[w].df :
        /\ writer[w].df[i].cusip \in DOMAIN writer[w].issuer_mapping
        /\ \A c \in LookupCols :
               writer[w].df[i][c] \in DOMAIN writer[w].mappings[c]

NonNegativeNumeral(n) == n.k = "num" /\ ~n.neg

\* the record of element e has, in each numeric field that e gives as a
\* non-negative decimal numeral, the integer part of the numeral
IntegerParts(e, r) ==
    /\ NonNegativeNumeral(e.value) => r.value = e.value.whole
    /\ NonNegativeNumeral(e.sshPrnamt) => r.shares_amount = e.sshPrnamt.whole
    /\ e.votingAuthority.k = "present"
           => /\ NonNegativeNumeral(e.votingAuthority.Sole)
                     => r.sole = e.votingAuthority.Sole.whole
              /\ NonNegativeNumeral(e.votingAuthority.Shared)
                     => r.shared = e.votingAuthority.Shared.whole
              /\ NonNegativeNumeral(e.votingAuthority.None)
                     => r.none = e.votingAuthority.None.whole

Truncated(out) ==
    out.status = "ok"
        => \A i \in DOMAIN doc : IntegerParts(doc[i], out.rows[i])

C28_ParsersAgree ==
    (lxml_out # Pending /\ bs4_out # Pending)
        => /\ lxml_out.status = bs4_out.status
           /\ lxml_out.rows = bs4_out.rows

\* the largest member of a non-empty set of numbers
Max(S) == CHOOSE i \in S : \A j \in S : j <= i

\* the issuer name that the frame gives last for a CUSIP
LastName(df, cusip) ==
    df[Max({i \in DOMAIN df : df[i].cusip = cusip})].name_of_issuer

\* insert_issuers of writer 1 has committed
IssuersCommitted ==
    writer[1].pc \in {"issuer_select", "copy", "commit", "done", "raised"}

\* C24: when insert_issuers was given a CUSIP that had an issuer row, the
\* store holds one row for the CUSIP afterwards, with the id it had and the
\* name that was given
C24_UpsertRefreshesName ==
    IssuersCommitted
        => \A r0 \in store0.issuers :
               (\E i \in DOMAIN writer[1].df : writer[1].df[i].cusip = r0.key)
                   => {r \in store.issuers : r.key = r0.key}
                          = {[r0 EXCEPT !.name =
                                 LastName(writer[1].df, r0.key)]}

\* the row of CUSIP 000000000 was "Acme Co" and is "Acme Corp" now, with the
\* id it had, next to a new issuer
C24_Witness ==
    /\ IssuersCommitted
    /\ [table |-> "issuers", key |-> "000000000", id |-> 1,
        name |-> "Acme Co"] \in store0.issuers
    /\ [table |-> "issuers", key |-> "000000000", id |-> 1,
        name |-> "Acme Corp"] \in store.issuers
    /\ Cardinality(store.issuers) = 2

Ids(rows) == {r.id : r \in rows}

\* every reference of a Holding row names a row that exists
Resolves(h) ==
    /\ \E a \in DOMAIN store.filings : store.filings[a] = h.filing_id
    /\ h.issuer_id \in Ids(store.issuers)
    /\ h.title_of_class \in Ids(store.lookup["title_of_class"])
    /\ h.shares_or_principal_type \in Ids(store.lookup["share_type"])
    /\ h.put_or_call \in Ids(store.lookup["put_call"])
    /\ h.investment_discretion
           \in Ids(store.lookup["investment_discretion"])

\* C21: in every state of the store, the filing, issuer, title-of-class,
\* share-type, put/call and discretion references of every Holding row name
\* rows that exist; no Holding row is without its Filing row
C21_ReferentialIntegrity ==
    \A i \in DOMAIN store.holdings : Resolves(store.holdings[i])

\* a call has added two Holding rows, with keys it created, to a store that
\* held none
C21_Witness ==
    /\ writer[1].pc = "done"
    /\ store0.holdings = <<>>
    /\ store0.issuers = {}
    /\ Len(store.holdings) = 2
    /\ store.holdings[1].issuer_id # store.holdings[2].issuer_id

\* C29: when insert_holdings_batch returns, the store has as many Holding
\* rows more as the call was given rows
C29_NoSilentRowLoss ==
    writer[1].pc = "done"
        => Len(store.holdings) = Len(store0.holdings) + Len(writer[1].df)

\* every attachment of the filing that is an information table was
\* extracted in this run, and the holdings of each one that has rows are in
\* the store
HoldingsWritten(a) ==
    \A i \in DOMAIN FilingAttachments(a) :
        IsInfoTable(FilingAttachments(a)[i])
            => /\ extractCalls[a][i] = 1
               /\ Extract(FilingAttachments(a)[i]) = "rows"
                      => holdings[a][i] > 0

\* C23: every accession number in the seen-set has a Filing row in the
\* store; it is in the seen-set because the existence check found the row
\* (no insert_filing call for it in this run) or because this run inserted
\* the row and wrote all of its holdings
C23_SeenBackedByStore ==
    \A a \in seen :
        /\ filings[a] > 0
        /\ insertCalls[a] = 1 => HoldingsWritten(a)

\* one filing is in the seen-set by the existence check, after a restart,
\* and another one because this run persisted it with its holdings
C23_Witness ==
    /\ "a3" \in seen
    /\ insertCalls["a3"] = 0
    /\ filings["a3"] = 1
    /\ "a1" \in seen
    /\ insertCalls["a1"] = 1
    /\ holdings["a1"][2] = 1
    /\ holdings["a1"][3] = 1

\* process_filings is in the attachment loop of filing a
AtAttachmentsOf(a) == AtFiling("attach") /\ accession_number = a

\* C27: once the Filing row of an accession number is committed and the
\* handling that committed it is over, by a failure of the extraction or of
\* the holdings write or otherwise, no later sighting, in the same run or
\* after a restart, gets to the attachments of the filing, and no Holding row
\* is inserted for it
C27_NeverCompleted ==
    [][\A a \in Acc :
           (filings[a] > 0 /\ ~AtAttachmentsOf(a))
               => /\ holdings'[a] = holdings[a]
                  /\ ~AtAttachmentsOf(a)']_vars

\* the holdings write of a filing failed after its row was committed; after
\* a restart the filing was sighted again and discarded by the existence
\* check, its holdings still missing
C27_Witness ==
    /\ Handled
    /\ previous = "a2"
    /\ trace = <<"filing_exists">>
    /\ insertCalls["a2"] = 0
    /\ filings["a2"] = 1
    /\ holdings["a2"][1] = 0
    /\ "a2" \in seen

\* ---------------------------------------------------------------------
\* CikFileHandler over the poll cycles of a quiet feed, with a file whose
\* modification time is what its writer makes it.
\* ---------------------------------------------------------------------

\* the modification time is set by the writer and has the granularity of the
\* clock of the file system: a write within one tick, or one that restores
\* the time stamp (cp -p, mv of a prepared file), leaves it as it was
WriteFileKeepingTime ==
    /\ pc \in {"check", "stopped"}
    /\ \E i \in 1..Len(FileContents) : file' = FileContents[i]
    /\ UNCHANGED <<mtime, loopVars, seen, trace, cause>>
    /\ UNCHANGED <<watchVars, storeVars, callVars>>
    /\ UNCHANGED <<appVars, otherVars>>

\* the rest of a poll cycle in which both fetches return no filing: the two
\* process_filings calls and time.sleep(5)
QuietCycle ==
    /\ pc = "fetch1"
    /\ ~shutdown_flag
    /\ pc' = "check"
    /\ UNCHANGED <<fpc, new_filings, new_filings_a, idx, att, seen, trace,
                   cause>>
    /\ UNCHANGED <<watchVars, fileVars, storeVars, callVars>>
    /\ UNCHANGED <<appVars, otherVars>>

WatchNext ==
    \/ check_for_changes
    \/ QuietCycle
    \/ FetchRaises
    \/ WriteFile
    \/ WriteFileKeepingTime
    \/ Restart

SpecWatch == Init /\ [][WatchNext]_vars

\* C25: after check_for_changes at the top of a cycle, the hash on record is
\* the hash of the content of the file, and the list that the callback loads
\* is the list of that content: a change of content is picked up at the next
\* check, and a reload happens for no other reason
C25_ReloadByContentHash ==
    pc = "fetch1"
        => /\ last_hash = get_file_hash(file)
           /\ current_ciks = reload_ciks(file)

(***************************************************************************)
(* Two ingestion processes on one store: the Filing row of process_filings. *)
(* Both poll the same feed page; the filings are of watched managers that   *)
(* have a manager record, so each passes the cik gate and get_manager_by_cik.*)
(***************************************************************************)
MaxFeed == 2

\* for filing in filings: ... if accession_number in seen: continue
GateFilingOf(p) ==
    /\ ingester[p].pc = "gate"
    /\ IF ingester[p].i > Len(feed_page)
         THEN ingester' = [ingester EXCEPT ![p].pc = "done"]
         ELSE IF feed_page[ingester[p].i] \in ingester[p].seen
                THEN ingester' = [ingester EXCEPT ![p].i = @ + 1]
                ELSE ingester' = [ingester EXCEPT ![p].pc = "exists"]
    /\ UNCHANGED <<feed_page, filing_rows, accession_unique, notPairVars>>

\* if filing_exists(conn, accession_number): seen.add; continue. The SELECT
\* sees the rows committed when it runs, not the open INSERT of the other
\* process
CheckFilingExistsOf(p) ==
    /\ ingester[p].pc = "exists"
    /\ LET a == feed_page[ingester[p].i]
       IN  IF filing_rows[a] > 0
             THEN ingester' = [ingester EXCEPT ![p].seen = @ \cup {a},
                                               ![p].i = @ + 1,
                                               ![p].pc = "gate"]
             ELSE ingester' = [ingester EXCEPT ![p].pc = "insert"]
    /\ UNCHANGED <<feed_page, filing_rows, accession_unique, notPairVars>>

\* the other process has an INSERT of this accession number not yet committed
OpenElsewhere(p, a) ==
    \E q \in Ingesters \ {p} : ingester[q].txn = a

\* insert_filing: cur.execute(INSERT INTO filings ... RETURNING filing_id),
\* a plain INSERT. Under a unique index it waits for an open INSERT of the
\* same accession number to end
InsertFilingOf(p) ==
    /\ ingester[p].pc = "insert"
    /\ LET a == feed_page[ingester[p].i]
       IN  /\ accession_unique => (filing_rows[a] = 0 /\ ~OpenElsewhere(p, a))
           /\ ingester' = [ingester EXCEPT ![p].txn = a, ![p].pc = "commit"]
    /\ UNCHANGED <<feed_page, filing_rows, accession_unique, notPairVars>>

\* insert_filing: the INSERT violates the unique index; except psycopg2.Error:
\* conn.rollback(); raise Exception, which ends process_filings and the loop
\* of Application.run
UniqueViolationOf(p) ==
    /\ ingester[p].pc = "insert"
    /\ accession_unique
    /\ filing_rows[feed_page[ingester[p].i]] > 0
    /\ ingester' = [ingester EXCEPT ![p].pc = "raised"]
    /\ UNCHANGED <<feed_page, filing_rows, accession_unique, notPairVars>>

\* insert_filing: conn.commit()
CommitFilingOf(p) ==
    /\ ingester[p].pc = "commit"
    /\ filing_rows' = [filing_rows EXCEPT ![ingester[p].txn] = @ + 1]
    /\ ingester' = [ingester EXCEPT ![p].txn = "none", ![p].pc = "rest"]
    /\ UNCHANGED <<feed_page, accession_unique, notPairVars>>

\* the attachments of the filing, which write no Filing row, and
\* seen.add(accession_number)
RestOfFilingOf(p) ==
    /\ ingester[p].pc = "rest"
    /\ LET a == feed_page[ingester[p].i]
       IN  ingester' = [ingester EXCEPT ![p].seen = @ \cup {a},
                                        ![p].i = @ + 1,
                                        ![p].pc = "gate"]
    /\ UNCHANGED <<feed_page, filing_rows, accession_unique, notPairVars>>

\* both processes start with an empty seen set on a store without Filing
\* rows; the schema of the store is not part of the sources: the index on
\* filings.accession_number is there or it is not
PairInit ==
    /\ MainIdle
    /\ PubIdle
    /\ ParseIdle
    /\ WriterIdle
    /\ feed_page \in SeqsUpTo(Acc, MaxFeed)
    /\ ingester = [p \in Ingesters |-> [IdleIngester EXCEPT !.pc = "gate"]]
    /\ filing_rows = [a \in Acc |-> 0]
    /\ accession_unique \in BOOLEAN

PairNext ==
    \E p \in Ingesters :
        \/ GateFilingOf(p)
        \/ CheckFilingExistsOf(p)
        \/ InsertFilingOf(p)
        \/ UniqueViolationOf(p)
        \/ CommitFilingOf(p)
        \/ RestOfFilingOf(p)

SpecPair == PairInit /\ [][PairNext]_vars

\* C22: however two ingestion processes that sight the same accession
\* number interleave their filing_exists and insert_filing steps, no
\* accession number gets a second Filing row and neither process is ended by
\* a uniqueness error of the store
C22_OneRowNoError ==
    /\ \A a \in Acc : filing_rows[a] <= 1
    /\ \A p \in Ingesters : ingester[p].pc # "raised"

====
